---- MODULE Spec2Model ----
(***************************************************************************)
(* Model of bus-mapping/src/circuit_input_builder/execution.rs:            *)
(*   - CopyDataType, its enumeration iterator CopyDataTypeIter and its     *)
(*     numeric coding (From<CopyDataType> for usize, From<&..> for u64);   *)
(*   - CopyEvent and its read/write-counter accounting.                    *)
(* Two specifications share the module: SpecIter drives one iterator with  *)
(* next()/next_back(); SpecCopy draws a CopyEvent and calls its methods.   *)
(***************************************************************************)
EXTENDS Integers, Sequences, FiniteSets, TLC

VARIABLES idx, back_idx, front, back, last, sawNone, code_usize, code_u64,
          event, ret

varsIter == <<idx, back_idx, front, back, last, sawNone, code_usize, code_u64>>
varsCopy == <<event, ret>>
vars == <<idx, back_idx, front, back, last, sawNone, code_usize, code_u64,
          event, ret>>

(***************************************************************************)
(* Bounds of the model.                                                    *)
(***************************************************************************)
MaxBytes == 4
MaxSrcAddr == 1
MaxSrcAddrEnd == 5
MaxRwStart == 10

(***************************************************************************)
(* Option<T>: Some(v) is the one-element sequence, None the empty one.     *)
(***************************************************************************)
Some(v) == <<v>>
None == <<>>

(***************************************************************************)
(* PrecompileCalls (bus-mapping/src/precompile.rs): the nine precompile    *)
(* kinds in their canonical order, and usize::from / u64::from of a kind,  *)
(* its position in that order counted from one (the precompile address).   *)
(***************************************************************************)
PrecompileCalls ==
    <<"ECRecover", "Sha256", "Ripemd160", "Identity", "Modexp",
      "Bn128Add", "Bn128Mul", "Bn128Pairing", "Blake2F">>

PrecompileCalls_to_usize(k) ==
    CHOOSE i \in 1..Len(PrecompileCalls) : PrecompileCalls[i] = k

PrecompileCalls_to_u64(k) ==
    CHOOSE i \in 1..Len(PrecompileCalls) : PrecompileCalls[i] = k

(***************************************************************************)
(* enum CopyDataType                                                       *)
(***************************************************************************)
Padding == [tag |-> "Padding", call |-> "-"]
Bytecode == [tag |-> "Bytecode", call |-> "-"]
Memory == [tag |-> "Memory", call |-> "-"]
TxCalldata == [tag |-> "TxCalldata", call |-> "-"]
TxLog == [tag |-> "TxLog", call |-> "-"]
RlcAcc == [tag |-> "RlcAcc", call |-> "-"]
Precompile(k) == [tag |-> "Precompile", call |-> k]

precompile_types ==
    [i \in 1..Len(PrecompileCalls) |-> Precompile(PrecompileCalls[i])]

CopyDataType ==
    {Padding, Bytecode, Memory, TxCalldata, TxLog, RlcAcc}
        \cup {Precompile(PrecompileCalls[i]) : i \in 1..Len(PrecompileCalls)}

NUM_COPY_DATA_TYPES == 15

(***************************************************************************)
(* CopyDataTypeIter::get                                                   *)
(***************************************************************************)
get(i) ==
    CASE i = 0 -> Some(Padding)
      [] i = 1 -> Some(Bytecode)
      [] i = 2 -> Some(Memory)
      [] i = 3 -> Some(TxCalldata)
      [] i = 4 -> Some(TxLog)
      [] i = 5 -> Some(RlcAcc)
      [] i = 6 -> Some(Precompile("ECRecover"))
      [] i = 7 -> Some(Precompile("Sha256"))
      [] i = 8 -> Some(Precompile("Ripemd160"))
      [] i = 9 -> Some(Precompile("Identity"))
      [] i = 10 -> Some(Precompile("Modexp"))
      [] i = 11 -> Some(Precompile("Bn128Add"))
      [] i = 12 -> Some(Precompile("Bn128Mul"))
      [] i = 13 -> Some(Precompile("Bn128Pairing"))
      [] i = 14 -> Some(Precompile("Blake2F"))
      [] OTHER -> None

(***************************************************************************)
(* Iterator::size_hint and ExactSizeIterator::len                          *)
(***************************************************************************)
size_hint ==
    LET t == IF idx + back_idx >= NUM_COPY_DATA_TYPES
             THEN 0
             ELSE NUM_COPY_DATA_TYPES - idx - back_idx
    IN <<t, Some(t)>>

len == size_hint[1]

(***************************************************************************)
(* Variant of nth that reads the table at the new cursor, one too far.     *)
(***************************************************************************)
nth_off(n) ==
    LET i == idx + n + 1
    IN IF i + back_idx > NUM_COPY_DATA_TYPES
       THEN [idx |-> NUM_COPY_DATA_TYPES, out |-> None]
       ELSE [idx |-> i, out |-> get(i)]

(***************************************************************************)
(* Iterator::nth: the new front cursor and the value returned.             *)
(***************************************************************************)
nth(n) ==
    LET i == idx + n + 1
    IN IF i + back_idx > NUM_COPY_DATA_TYPES
       THEN [idx |-> NUM_COPY_DATA_TYPES, out |-> None]
       ELSE [idx |-> i, out |-> get(i - 1)]

(***************************************************************************)
(* Iterator::next, which is self.nth(0).                                   *)
(***************************************************************************)
next ==
    LET r == nth(0)
    IN /\ idx' = r.idx
       /\ last' = Some(r.out)
       /\ front' = front \o r.out
       /\ sawNone' = (sawNone \/ r.out = None)
       /\ code_usize' = None /\ code_u64' = None
       /\ UNCHANGED <<back_idx, back>>
       /\ UNCHANGED varsCopy

(***************************************************************************)
(* Variant of next_back that stops one element early (>= for >).           *)
(***************************************************************************)
next_back_early ==
    LET b == back_idx + 1
        r == IF idx + b >= NUM_COPY_DATA_TYPES
             THEN [back_idx |-> NUM_COPY_DATA_TYPES, out |-> None]
             ELSE [back_idx |-> b, out |-> get(NUM_COPY_DATA_TYPES - b)]
    IN /\ back_idx' = r.back_idx
       /\ last' = Some(r.out)
       /\ back' = back \o r.out
       /\ sawNone' = (sawNone \/ r.out = None)
       /\ code_usize' = None /\ code_u64' = None
       /\ UNCHANGED <<idx, front>>
       /\ UNCHANGED varsCopy

(***************************************************************************)
(* DoubleEndedIterator::next_back                                          *)
(***************************************************************************)
next_back ==
    LET b == back_idx + 1
        r == IF idx + b > NUM_COPY_DATA_TYPES
             THEN [back_idx |-> NUM_COPY_DATA_TYPES, out |-> None]
             ELSE [back_idx |-> b, out |-> get(NUM_COPY_DATA_TYPES - b)]
    IN /\ back_idx' = r.back_idx
       /\ last' = Some(r.out)
       /\ back' = back \o r.out
       /\ sawNone' = (sawNone \/ r.out = None)
       /\ code_usize' = None /\ code_u64' = None
       /\ UNCHANGED <<idx, front>>
       /\ UNCHANGED varsCopy

(***************************************************************************)
(* Variant of the usize coding that counts the precompile kinds from zero. *)
(***************************************************************************)
CopyDataType_to_usize_zero(t) ==
    CASE t = Padding -> 0
      [] t = Bytecode -> 1
      [] t = Memory -> 2
      [] t = TxCalldata -> 3
      [] t = TxLog -> 4
      [] t = RlcAcc -> 5
      [] t.tag = "Precompile" -> 4 + PrecompileCalls_to_usize(t.call)

(***************************************************************************)
(* impl From<CopyDataType> for usize                                       *)
(***************************************************************************)
CopyDataType_to_usize(t) ==
    CASE t = Padding -> 0
      [] t = Bytecode -> 1
      [] t = Memory -> 2
      [] t = TxCalldata -> 3
      [] t = TxLog -> 4
      [] t = RlcAcc -> 5
      [] t.tag = "Precompile" -> 5 + PrecompileCalls_to_usize(t.call)

(***************************************************************************)
(* impl From<&CopyDataType> for u64                                        *)
(***************************************************************************)
CopyDataType_to_u64(t) ==
    CASE t = Padding -> 0
      [] t = Bytecode -> 1
      [] t = Memory -> 2
      [] t = TxCalldata -> 3
      [] t = TxLog -> 4
      [] t = RlcAcc -> 5
      [] t.tag = "Precompile" -> 5 + PrecompileCalls_to_u64(t.call)

(***************************************************************************)
(* The caller converts the variant the iterator yielded last to its code,  *)
(* as a machine integer (usize::from) and as a circuit value (u64::from).  *)
(***************************************************************************)
usize_from ==
    /\ last # None /\ last[1] # None
    /\ code_usize = None
    /\ code_usize' = Some(CopyDataType_to_usize(last[1][1]))
    /\ UNCHANGED <<idx, back_idx, front, back, last, sawNone, code_u64>>
    /\ UNCHANGED varsCopy

u64_from ==
    /\ last # None /\ last[1] # None
    /\ code_u64 = None
    /\ code_u64' = Some(CopyDataType_to_u64(last[1][1]))
    /\ UNCHANGED <<idx, back_idx, front, back, last, sawNone, code_usize>>
    /\ UNCHANGED varsCopy

(***************************************************************************)
(* Results of the counter methods: a number, or the abort of unreachable!()*)
(* ("panic"), or an unsigned subtraction below zero ("underflow": a panic  *)
(* in a build with overflow checks, a wrapped value in one without).       *)
(***************************************************************************)
Ok(n) == [kind |-> "ok", val |-> n]
Panic == [kind |-> "panic", val |-> 0]
Underflow == [kind |-> "underflow", val |-> 0]

(***************************************************************************)
(* u64::checked_sub, Option::unwrap_or_default and std::cmp::min           *)
(***************************************************************************)
checked_sub(a, b) == IF a >= b THEN Some(a - b) ELSE None
unwrap_or_default(o) == IF o = None THEN 0 ELSE o[1]
min(a, b) == IF a <= b THEN a ELSE b

(***************************************************************************)
(* struct CopyEvent: the fields the counter methods read.  bytes is kept   *)
(* as its length, which is all that the methods use of it.                 *)
(***************************************************************************)
CopyEvent ==
    [src_addr : 0..MaxSrcAddr,
     src_addr_end : 0..MaxSrcAddrEnd,
     src_type : CopyDataType,
     dst_type : CopyDataType,
     rw_counter_start : {0, MaxRwStart},
     bytes_len : 0..MaxBytes]

StepIndex == 0..(2 * MaxBytes + 1)

(***************************************************************************)
(* Variants of source_rw_increase with a slip in them: the + 1 of the      *)
(* rounding forgotten; the clamp to the source window forgotten; TxLog     *)
(* taken for an uncounted source.                                          *)
(***************************************************************************)
source_rw_increase_floor(e, step_index) ==
    CASE e.src_type = Bytecode \/ e.src_type = TxCalldata
            \/ e.src_type.tag = "Precompile" -> Ok(0)
      [] e.src_type = Memory ->
            Ok(min(step_index \div 2,
                   unwrap_or_default(checked_sub(e.src_addr_end, e.src_addr))))
      [] e.src_type = RlcAcc \/ e.src_type = TxLog \/ e.src_type = Padding -> Panic

source_rw_increase_noclamp(e, step_index) ==
    CASE e.src_type = Bytecode \/ e.src_type = TxCalldata
            \/ e.src_type.tag = "Precompile" -> Ok(0)
      [] e.src_type = Memory -> Ok((step_index + 1) \div 2)
      [] e.src_type = RlcAcc \/ e.src_type = TxLog \/ e.src_type = Padding -> Panic

source_rw_increase_txlog(e, step_index) ==
    CASE e.src_type = Bytecode \/ e.src_type = TxCalldata \/ e.src_type = TxLog
            \/ e.src_type.tag = "Precompile" -> Ok(0)
      [] e.src_type = Memory ->
            Ok(min((step_index + 1) \div 2,
                   unwrap_or_default(checked_sub(e.src_addr_end, e.src_addr))))
      [] e.src_type = RlcAcc \/ e.src_type = Padding -> Panic

(***************************************************************************)
(* rw_counter_increase: the source side (first match of the function)      *)
(***************************************************************************)
source_rw_increase(e, step_index) ==
    CASE e.src_type = Bytecode \/ e.src_type = TxCalldata
            \/ e.src_type.tag = "Precompile" -> Ok(0)
      [] e.src_type = Memory ->
            Ok(min((step_index + 1) \div 2,
                   unwrap_or_default(checked_sub(e.src_addr_end, e.src_addr))))
      [] e.src_type = RlcAcc \/ e.src_type = TxLog \/ e.src_type = Padding -> Panic

(***************************************************************************)
(* Variants of destination_rw_increase with a slip in them: TxLog taken    *)
(* for an uncounted destination; the write counted on the read's step.     *)
(***************************************************************************)
destination_rw_increase_txlog(e, step_index) ==
    CASE e.dst_type = RlcAcc \/ e.dst_type = Bytecode \/ e.dst_type = TxLog
            \/ e.dst_type.tag = "Precompile" -> Ok(0)
      [] e.dst_type = Memory -> Ok(step_index \div 2)
      [] e.dst_type = TxCalldata \/ e.dst_type = Padding -> Panic

destination_rw_increase_early(e, step_index) ==
    CASE e.dst_type = RlcAcc \/ e.dst_type = Bytecode
            \/ e.dst_type.tag = "Precompile" -> Ok(0)
      [] e.dst_type = TxLog \/ e.dst_type = Memory -> Ok((step_index + 1) \div 2)
      [] e.dst_type = TxCalldata \/ e.dst_type = Padding -> Panic

(***************************************************************************)
(* rw_counter_increase: the destination side (second match)                *)
(***************************************************************************)
destination_rw_increase(e, step_index) ==
    CASE e.dst_type = RlcAcc \/ e.dst_type = Bytecode
            \/ e.dst_type.tag = "Precompile" -> Ok(0)
      [] e.dst_type = TxLog \/ e.dst_type = Memory -> Ok(step_index \div 2)
      [] e.dst_type = TxCalldata \/ e.dst_type = Padding -> Panic

(***************************************************************************)
(* CopyEvent::rw_counter_increase                                          *)
(***************************************************************************)
rw_counter_increase(e, step_index) ==
    LET s == source_rw_increase(e, step_index)
        d == destination_rw_increase(e, step_index)
    IN IF s.kind # "ok" THEN s
       ELSE IF d.kind # "ok" THEN d
       ELSE Ok(s.val + d.val)

(***************************************************************************)
(* CopyEvent::rw_counter                                                   *)
(***************************************************************************)
rw_counter(e, step_index) ==
    LET inc == rw_counter_increase(e, step_index)
    IN IF inc.kind # "ok" THEN inc ELSE Ok(e.rw_counter_start + inc.val)

(***************************************************************************)
(* Variant of rw_counter_increase_left that takes bytes.len() for the last *)
(* step index.                                                             *)
(***************************************************************************)
rw_counter_increase_left_len(e, step_index) ==
    LET a == rw_counter(e, e.bytes_len)
        b == rw_counter(e, step_index)
    IN IF a.kind # "ok" THEN a
       ELSE IF b.kind # "ok" THEN b
       ELSE IF a.val < b.val THEN Underflow
       ELSE Ok(a.val - b.val)

(***************************************************************************)
(* CopyEvent::rw_counter_increase_left                                     *)
(***************************************************************************)
rw_counter_increase_left(e, step_index) ==
    LET a == rw_counter(e, e.bytes_len * 2)
        b == rw_counter(e, step_index)
    IN IF a.kind # "ok" THEN a
       ELSE IF b.kind # "ok" THEN b
       ELSE IF a.val < b.val THEN Underflow
       ELSE Ok(a.val - b.val)

(***************************************************************************)
(* Variant of rw_counter_delta that takes bytes.len() for the last step    *)
(* index.                                                                  *)
(***************************************************************************)
rw_counter_delta_len(e) == rw_counter_increase(e, e.bytes_len)

(***************************************************************************)
(* CopyEvent::rw_counter_delta                                             *)
(***************************************************************************)
rw_counter_delta(e) == rw_counter_increase(e, e.bytes_len * 2)

(***************************************************************************)
(* The caller builds one event and calls one of its three public methods   *)
(* (all take &self and leave the event alone); ret records the call made   *)
(* and what it returned, ret.fn = "none" that the call is still to come.   *)
(***************************************************************************)
NoCall == [fn |-> "none", step_index |-> 0, res |-> Ok(0)]

call_rw_counter(step_index) ==
    /\ ret.fn = "none"
    /\ ret' = [fn |-> "rw_counter", step_index |-> step_index,
               res |-> rw_counter(event, step_index)]
    /\ UNCHANGED event
    /\ UNCHANGED varsIter

call_rw_counter_increase_left(step_index) ==
    /\ ret.fn = "none"
    /\ ret' = [fn |-> "rw_counter_increase_left", step_index |-> step_index,
               res |-> rw_counter_increase_left(event, step_index)]
    /\ UNCHANGED event
    /\ UNCHANGED varsIter

call_rw_counter_delta ==
    /\ ret.fn = "none"
    /\ ret' = [fn |-> "rw_counter_delta", step_index |-> event.bytes_len * 2,
               res |-> rw_counter_delta(event)]
    /\ UNCHANGED event
    /\ UNCHANGED varsIter

(***************************************************************************)
(* CopyDataType::iter() and CopyDataType::default()                        *)
(***************************************************************************)
iter ==
    /\ idx = 0
    /\ back_idx = 0
    /\ front = <<>>
    /\ back = <<>>
    /\ last = None
    /\ sawNone = FALSE
    /\ code_usize = None
    /\ code_u64 = None

default == Memory

(***************************************************************************)
(* SpecIter: one iterator, any interleaving of next() and next_back(),     *)
(* the caller coding what was yielded.                                     *)
(***************************************************************************)
InitIter ==
    /\ iter
    /\ event = [src_addr |-> 0, src_addr_end |-> 0, src_type |-> default,
                dst_type |-> default, rw_counter_start |-> 0, bytes_len |-> 0]
    /\ ret = NoCall

NextIter ==
    \/ next
    \/ next_back
    \/ usize_from
    \/ u64_from

SpecIter == InitIter /\ [][NextIter]_vars

(***************************************************************************)
(* SpecCopy: any copy event within the bounds, any call of its methods.    *)
(***************************************************************************)
InitCopy ==
    /\ iter
    /\ event \in CopyEvent
    /\ ret = NoCall

NextCopy ==
    \/ \E step_index \in StepIndex : call_rw_counter(step_index)
    \/ \E step_index \in StepIndex : call_rw_counter_increase_left(step_index)
    \/ call_rw_counter_delta

SpecCopy == InitCopy /\ [][NextCopy]_vars

(***************************************************************************)
(*                 PROPERTIES OF THE COPY EVENT (SpecCopy)                 *)
(***************************************************************************)
PrecompileVariants == {Precompile(PrecompileCalls[i]) : i \in 1..Len(PrecompileCalls)}
LegalSrc == {Bytecode, TxCalldata, Memory} \cup PrecompileVariants
LegalDst == {RlcAcc, Bytecode, Memory, TxLog} \cup PrecompileVariants
Legal == event.src_type \in LegalSrc /\ event.dst_type \in LegalDst
MemToMem == event.src_type = Memory /\ event.dst_type = Memory
N == event.bytes_len

\* C1: a Memory -> Memory copy event of N bytes whose source window
\* src_addr_end - src_addr is at least N has rw_counter_delta() = 2N, for
\* every N and every rw_counter_start.
C1_DeltaMemToMem ==
    (ret.fn = "rw_counter_delta" /\ MemToMem
        /\ event.src_addr_end - event.src_addr >= N)
    => ret.res = Ok(2 * N)

C1_Witness ==
    /\ ret.fn = "rw_counter_delta" /\ MemToMem
    /\ event.src_addr_end - event.src_addr > N
    /\ N = 3 /\ event.rw_counter_start > 0
    /\ ret.res = Ok(6)

\* C2: for a copy event with a legal source and a legal destination type
\* and a step index in [0, 2N], rw_counter_increase_left(step_index) is
\* computed without unsigned underflow and, added to
\* rw_counter(step_index) - rw_counter_start, gives rw_counter_delta().
C2_IncreaseLeftComplement ==
    (ret.fn = "rw_counter_increase_left" /\ Legal /\ ret.step_index \in 0..(2 * N))
    => /\ ret.res.kind = "ok"
       /\ rw_counter(event, ret.step_index).kind = "ok"
       /\ rw_counter_delta(event).kind = "ok"
       /\ ret.res.val
            + (rw_counter(event, ret.step_index).val - event.rw_counter_start)
          = rw_counter_delta(event).val

C2_Witness ==
    /\ ret.fn = "rw_counter_increase_left" /\ MemToMem
    /\ N = 3 /\ ret.step_index = 3
    /\ event.src_addr_end - event.src_addr = 2
    /\ ret.res = Ok(2)

\* C3: a copy event whose source is Bytecode, TxCalldata or a precompile
\* and whose destination is Memory or TxLog has rw_counter_delta() = N and
\* rw_counter(2N) = rw_counter_start + N: the source side contributes 0.
C3_UncountedSource ==
    (event.src_type \in ({Bytecode, TxCalldata} \cup PrecompileVariants)
        /\ event.dst_type \in {Memory, TxLog})
    => /\ ret.fn = "rw_counter_delta" => ret.res = Ok(N)
       /\ (ret.fn = "rw_counter" /\ ret.step_index = 2 * N)
            => ret.res = Ok(event.rw_counter_start + N)

C3_Witness ==
    /\ event.src_type = TxCalldata /\ event.dst_type = Memory
    /\ N = 4 /\ event.rw_counter_start = 10
    /\ ret.fn = "rw_counter" /\ ret.step_index = 8
    /\ ret.res = Ok(14)
    /\ rw_counter_delta(event) = Ok(4)

\* C4: the 3-byte Memory -> Memory event with rw_counter_start = 0 and a
\* source window of at least 3 bytes.
C4_Case ==
    /\ MemToMem /\ N = 3 /\ event.rw_counter_start = 0
    /\ event.src_addr_end - event.src_addr >= 3
    /\ ret.fn = "rw_counter" /\ ret.step_index \in 0..6

\* C4 as stated: the per-step counters of that event are
\* rw_counter(0..6) = 0, 0, 1, 1, 2, 2, 3.
C4_AsStated ==
    C4_Case => ret.res = Ok(<<0, 0, 1, 1, 2, 2, 3>>[ret.step_index + 1])

\* C4 as amended: the per-step counters of that event are
\* rw_counter(0..6) = 0, 1, 2, 3, 4, 5, 6 (a read on each odd step, a write
\* on each even step after the first).
C4_PerStepCounters ==
    C4_Case => ret.res = Ok(<<0, 1, 2, 3, 4, 5, 6>>[ret.step_index + 1])

C4_Witness ==
    C4_Case /\ ret.step_index = 6 /\ ret.res = Ok(6)

\* The destination side's contribution by the table of its types, and the
\* source window with the subtraction saturating at 0.
DstShare(s) == IF event.dst_type \in {TxLog, Memory} THEN s \div 2 ELSE 0
SrcWindow ==
    IF event.src_addr_end < event.src_addr THEN 0
    ELSE event.src_addr_end - event.src_addr
CeilHalf(n) == (n + 1) \div 2

C5_Case == ret.fn = "rw_counter" /\ event.src_type = Memory /\ event.dst_type \in LegalDst

\* C5 as stated: with a Memory source, the source side contributes
\* min(ceil((step_index + 1) / 2), src_addr_end - src_addr) at every step
\* index, the subtraction saturating at 0.
C5_AsStated ==
    C5_Case
    => /\ ret.res.kind = "ok"
       /\ ret.res.val - event.rw_counter_start - DstShare(ret.step_index)
          = min(CeilHalf(ret.step_index + 1), SrcWindow)

\* C5 as amended: with a Memory source, the source side contributes
\* min(floor((step_index + 1) / 2), src_addr_end - src_addr) at every step
\* index, the subtraction saturating at 0 (so an event with
\* src_addr_end < src_addr has source contribution 0 at every step).
C5_SourceShare ==
    C5_Case
    => /\ ret.res.kind = "ok"
       /\ ret.res.val - event.rw_counter_start - DstShare(ret.step_index)
          = min((ret.step_index + 1) \div 2, SrcWindow)
       /\ event.src_addr_end < event.src_addr
            => ret.res.val = event.rw_counter_start + DstShare(ret.step_index)

C5_Witness ==
    /\ C5_Case /\ event.dst_type = Memory
    /\ event.src_addr_end - event.src_addr = 2
    /\ ret.step_index = 6
    /\ ret.res = Ok(event.rw_counter_start + 2 + 3)

\* C8: on a copy event whose source type is RlcAcc, TxLog or Padding, or
\* whose destination type is TxCalldata or Padding, every call of
\* rw_counter, rw_counter_increase_left and rw_counter_delta aborts.
C8_IllegalAborts ==
    (ret.fn # "none"
        /\ (event.src_type \in {RlcAcc, TxLog, Padding}
              \/ event.dst_type \in {TxCalldata, Padding}))
    => ret.res = Panic

C8_Witness ==
    /\ ret.fn = "rw_counter_increase_left"
    /\ event.src_type = TxLog /\ event.dst_type = Memory
    /\ N = 2 /\ ret.step_index = 1
    /\ ret.res = Panic

\* C10: for a copy event with legal types, rw_counter(0) = rw_counter_start
\* and rw_counter(step_index) <= rw_counter(step_index + 1)
\* <= rw_counter(step_index) + 1 at every step index.
C10_MonotoneUnitSteps ==
    (ret.fn = "rw_counter" /\ Legal)
    => /\ ret.res.kind = "ok"
       /\ ret.step_index = 0 => ret.res.val = event.rw_counter_start
       /\ LET nxt == rw_counter(event, ret.step_index + 1)
          IN /\ nxt.kind = "ok"
             /\ ret.res.val <= nxt.val
             /\ nxt.val <= ret.res.val + 1

C10_Witness ==
    /\ ret.fn = "rw_counter" /\ MemToMem
    /\ event.src_addr_end - event.src_addr = 1 /\ N = 2
    /\ ret.step_index = 2
    /\ ret.res.val = event.rw_counter_start + 2
    /\ rw_counter(event, 3).val = ret.res.val

(***************************************************************************)
(*              PROPERTIES OF THE ENUMERATION (SpecIter)                   *)
(***************************************************************************)
\* The enumeration order: the six fixed variants, then the precompile ones.
EnumOrder ==
    <<Padding, Bytecode, Memory, TxCalldata, TxLog, RlcAcc>> \o precompile_types

Reverse(q) == [i \in 1..Len(q) |-> q[Len(q) + 1 - i]]
Distinct(q) == \A i, j \in 1..Len(q) : q[i] = q[j] => i = j
Yielded == Len(front) + Len(back)

C7_FullTraversal ==
    /\ Len(EnumOrder) = NUM_COPY_DATA_TYPES
    /\ Distinct(EnumOrder)
    /\ (sawNone /\ back = <<>>) => front = EnumOrder
    /\ (sawNone /\ front = <<>>) => back = Reverse(EnumOrder)
    /\ \A i \in 1..Len(front) : get(i - 1) = Some(front[i])
    /\ \A i \in 1..Len(EnumOrder) : get(i - 1) = Some(EnumOrder[i])

C7_Witness ==
    /\ sawNone /\ last = Some(None)
    /\ back = <<>>
    /\ Len(front) = 15
    /\ front[7] = Precompile("ECRecover")

\* What C9 says of every state of an iterator.
C9_State ==
    /\ Distinct(front \o back)
    /\ front = SubSeq(EnumOrder, 1, Len(front))
    /\ \A j \in 1..Len(back) : back[j] = EnumOrder[NUM_COPY_DATA_TYPES + 1 - j]
    /\ len = NUM_COPY_DATA_TYPES - Yielded
    /\ size_hint = <<NUM_COPY_DATA_TYPES - Yielded, Some(NUM_COPY_DATA_TYPES - Yielded)>>
    /\ sawNone => len = 0

\* C9: after any interleaving of next() and next_back() no variant was
\* yielded twice, the front calls yielded a prefix of the enumeration and
\* the back calls a suffix in reverse, len() and both bounds of size_hint()
\* are 15 minus the number yielded, and once a call returned None every
\* later call returns None with len() = 0.
C9_Bidirectional ==
    /\ []C9_State
    /\ [][sawNone => (last' = Some(None) /\ sawNone' /\ len' = 0
                        /\ front' = front /\ back' = back)]_vars

C9_Witness ==
    /\ sawNone /\ last = Some(None)
    /\ Len(front) = 7 /\ Len(back) = 8
    /\ len = 0

====
